---- MODULE Spec2Model ----
(***************************************************************************)
(* Crosswalk embedder glue.                                                *)
(*                                                                         *)
(*   SpecClient     XWalkContentsClient and its XWalkWebContentsObserver   *)
(*                  (the relay of engine events to embedder callbacks).    *)
(*   SpecBrowser    XWalkContentBrowserClient (the ContentBrowserClient    *)
(*                  override table and its singleton pointer).             *)
(*   SpecEcho       the echo test extension and its JavaScript API.        *)
(*   SpecBroadcast  the broadcast test extension and its JavaScript API.   *)
(*   SpecNaCl       GetExternalBrowserPpapiHost over the child process     *)
(*                  hosts.                                                 *)
(*                                                                         *)
(* Each specification moves its own variables and leaves the others at     *)
(* their initial values.                                                   *)
(***************************************************************************)
EXTENDS Integers, Sequences, FiniteSets, Bags, TLC

VARIABLES
    \* ---- XWalkContentsClient
    mWebContentsObserver,  \* the field: 0 is null, otherwise an observer
    created,               \* number of XWalkWebContentsObserver objects made
    attached,              \* observers registered with the web contents
    observedCore,          \* observer -> the ContentViewCore it was made for
    mDIPScale,             \* the field: a scale factor, in quarters
    calls,                 \* bag of every embedder callback invoked so far
    events,                \* <<method, url>> -> number of such engine events
    lastEvent,             \* the last operation of the client that ran
    lastCalls,             \* the embedder callbacks that operation invoked
    \* ---- XWalkContentBrowserClient
    os,                    \* the platform the file was compiled for
    g_browser_client,      \* the file-level pointer: 0 is NULL
    alive,                 \* constructed and not yet destroyed instances
    browserCmdLine,        \* switches of CommandLine::ForCurrentProcess()
    appOfHost,             \* render process id -> application, or NoApp
    allowedUrls,           \* application -> urls its CanRequestURL accepts
    bridges,               \* (process, frame) pairs that have a client bridge
    disable_nacl,          \* whether the file was compiled with DISABLE_NACL
    childHosts,            \* the browser's child process hosts, in the order
                           \* BrowserChildProcessHostIterator visits them
    lastCall,              \* the last override that ran: inputs and outputs
    \* ---- extensions
    toNative,              \* extension -> queue of messages posted by JS
    toJs,                  \* extension -> instance -> queue of posted messages
    echoListener,          \* echo JS API: instance -> value of var echoListener
    handler,               \* broadcast JS API: instance -> message listener
    echoPending,           \* history: instance -> the exports.echo calls whose
                           \* reply has not reached the instance yet, oldest first
    lastExt                \* the last extension step: inputs and effects

clientVars == <<mWebContentsObserver, created, attached, observedCore, mDIPScale,
                calls, events, lastEvent, lastCalls>>
browserVars == <<os, g_browser_client, alive, browserCmdLine, appOfHost,
                 allowedUrls, bridges, disable_nacl, childHosts, lastCall>>
extVars == <<toNative, toJs, echoListener, handler, echoPending, lastExt>>
vars == <<clientVars, browserVars, extVars>>

(***************************************************************************)
(* XWalkContentsClient                                                     *)
(***************************************************************************)

\* Bounds of the client model.
MaxObservers == 2
MaxEvents == 2

Urls == {"http://a/", "app://b/"}
Descriptions == {"net::ERR"}
ContentViewCores == {"cvc1"}
FrameIds == {7}
Titles == {"hello"}
Views == {"view1"}
CustomViewCallbacks == {"hide1"}

\* float and double values are counted in quarters: 4 is 1.0, 6 is 1.5.  The
\* values below and their products are short binary fractions, which a float
\* holds exactly, so the cast to float in onScaleChanged does not round.
Quarters == 4
Scales == {4, 6}
DIPScales == {8}
Times(a, b) == (a * b) \div Quarters

\* android.content.pm.ActivityInfo
SCREEN_ORIENTATION_UNSPECIFIED == -1

\* org.chromium.net.NetError values the engine reports.
ERR_ABORTED == -3
ERR_TIMED_OUT == -7
ERR_NAME_NOT_RESOLVED == -105
ERR_CACHE_MISS == -400
NetErrors == {ERR_ABORTED, ERR_TIMED_OUT, ERR_CACHE_MISS}

\* Error codes of the embedder API.
ERROR_UNKNOWN == -1
ERROR_HOST_LOOKUP == -2
ERROR_TIMEOUT == -8

convertErrorCode(netError) ==
    CASE netError = ERR_TIMED_OUT -> ERROR_TIMEOUT
      [] netError = ERR_NAME_NOT_RESOLVED -> ERROR_HOST_LOOKUP
      [] OTHER -> ERROR_UNKNOWN

NoEvent == [op |-> "none", observer |-> 0, url |-> "", core |-> "",
            isProvisionalLoad |-> FALSE, isMainFrame |-> FALSE, errorCode |-> 0,
            description |-> "", frameId |-> 0, isReload |-> FALSE,
            title |-> "", oldScale |-> 0, newScale |-> 0, dipScale |-> 0,
            view |-> "", callback |-> ""]

\* One invocation of a method the embedder implements.
NoArgs == [cb |-> "", code |-> 0, description |-> "", url |-> "", flag |-> FALSE,
           title |-> "", oldScale |-> 0, newScale |-> 0, view |-> "",
           callback |-> ""]

Callback(name, code, description, url, flag) ==
    [NoArgs EXCEPT !.cb = name, !.code = code, !.description = description,
                   !.url = url, !.flag = flag]

onPageFinished(url) == <<Callback("onPageFinished", 0, "", url, FALSE)>>

onReceivedError(errorCode, description, failingUrl) ==
    <<Callback("onReceivedError", errorCode, description, failingUrl, FALSE)>>

doUpdateVisitedHistory(url, isReload) ==
    <<Callback("doUpdateVisitedHistory", 0, "", url, isReload)>>

onTitleChanged(title) == <<[NoArgs EXCEPT !.cb = "onTitleChanged", !.title = title]>>

onScaleChangedScaled(oldScale, newScale) ==
    <<[NoArgs EXCEPT !.cb = "onScaleChangedScaled", !.oldScale = oldScale,
                     !.newScale = newScale]>>

\* The three-argument overload: its body in this class is empty, a subclass
\* overrides it.
onShowCustomView3(view, requestedOrientation, callback) ==
    <<[NoArgs EXCEPT !.cb = "onShowCustomView", !.view = view,
                     !.code = requestedOrientation, !.callback = callback]>>

SeqToBag(s) ==
    LET RECURSIVE Build(_)
        Build(n) == IF n = 0 THEN EmptyBag
                    ELSE Build(n - 1) (+) SetToBag({s[n]})
    IN Build(Len(s))

\* The embedder callbacks each observer method invokes, in order.
didStopLoadingNoCallback(url) == <<>>
didStopLoading(url) == onPageFinished(url)

didFailLoadSubFrames(isProvisionalLoad, isMainFrame, errorCode, description, failingUrl) ==
    IF errorCode = ERR_ABORTED
    THEN <<>>
    ELSE onReceivedError(convertErrorCode(errorCode), description, failingUrl)
didFailLoad(isProvisionalLoad, isMainFrame, errorCode, description, failingUrl) ==
    IF errorCode = ERR_ABORTED \/ ~isMainFrame
    THEN <<>>
    ELSE onReceivedError(convertErrorCode(errorCode), description, failingUrl)

didNavigateAnyFrame(url, baseUrl, isReload) == doUpdateVisitedHistory(url, isReload)

didFinishLoad(frameId, validatedUrl, isMainFrame) == <<>>

\* The methods of the client itself that forward to the embedder.
onUpdateTitle(title) == onTitleChanged(title)

onScaleChanged(oldScale, newScale) ==
    onScaleChangedScaled(Times(oldScale, mDIPScale), Times(newScale, mDIPScale))

onShowCustomView(view, callback) ==
    onShowCustomView3(view, SCREEN_ORIENTATION_UNSPECIFIED, callback)

\* WebContentsObserverAndroid: the constructor registers the observer with the
\* web contents of the ContentViewCore, detachFromWebContents removes it.
attachToWebContents(set, observer) == set \cup {observer}
detachFromWebContents(set, observer) == set \ {observer}

installKeepsOld(set, old, new) == attachToWebContents(set, new)
installWebContentsObserver(set, old, new) ==
    attachToWebContents(
        IF old # 0 THEN detachFromWebContents(set, old) ELSE set, new)

EventOps == {"didStopLoading", "didFailLoad", "didNavigateAnyFrame", "didFinishLoad"}
ClientOps == {"onUpdateTitle", "onScaleChanged", "onShowCustomView"}
EventKeys == (EventOps \X Urls) \cup (ClientOps \X {""})

EventCount ==
    LET RECURSIVE Sum(_)
        Sum(S) == IF S = {} THEN 0
                  ELSE LET k == CHOOSE x \in S : TRUE
                       IN events[k] + Sum(S \ {k})
    IN Sum(EventKeys)

InitClient ==
    /\ mWebContentsObserver = 0
    /\ created = 0
    /\ attached = {}
    /\ observedCore = <<>>
    /\ mDIPScale = 0
    /\ calls = EmptyBag
    /\ events = [k \in EventKeys |-> 0]
    /\ lastEvent = NoEvent
    /\ lastCalls = <<>>

\* An operation of the client has run and invoked cbs.
Relay(event, cbs) ==
    /\ lastEvent' = event
    /\ lastCalls' = cbs
    /\ calls' = calls (+) SeqToBag(cbs)
    /\ UNCHANGED <<browserVars, extVars>>

\* The engine calls a method of the client or of one of its observers.
Deliver(event, cbs) ==
    /\ EventCount < MaxEvents
    /\ events' = [events EXCEPT ![<<event.op, event.url>>] = @ + 1]
    /\ Relay(event, cbs)
    /\ UNCHANGED <<mWebContentsObserver, created, attached, observedCore, mDIPScale>>

InstallWebContentsObserver(contentViewCore) ==
    /\ created < MaxObservers
    /\ LET new == created + 1 IN
        /\ attached' = installWebContentsObserver(attached, mWebContentsObserver, new)
        /\ mWebContentsObserver' = new
        /\ created' = new
        /\ observedCore' = Append(observedCore, contentViewCore)
        /\ Relay([NoEvent EXCEPT !.op = "installWebContentsObserver",
                                 !.observer = new, !.core = contentViewCore], <<>>)
    /\ UNCHANGED <<events, mDIPScale>>

SetDIPScale(dipScale) ==
    /\ mDIPScale' = dipScale
    /\ Relay([NoEvent EXCEPT !.op = "setDIPScale", !.dipScale = dipScale], <<>>)
    /\ UNCHANGED <<mWebContentsObserver, created, attached, observedCore, events>>

\* Each of the three takes arguments of the declared parameter types and needs
\* no observer.
OnUpdateTitle(title) ==
    /\ title \in Titles
    /\ Deliver([NoEvent EXCEPT !.op = "onUpdateTitle", !.title = title],
               onUpdateTitle(title))

OnScaleChanged(oldScale, newScale) ==
    /\ {oldScale, newScale} \subseteq Scales
    /\ Deliver([NoEvent EXCEPT !.op = "onScaleChanged", !.oldScale = oldScale,
                                !.newScale = newScale, !.dipScale = mDIPScale],
               onScaleChanged(oldScale, newScale))

OnShowCustomView(view, callback) ==
    /\ view \in Views /\ callback \in CustomViewCallbacks
    /\ Deliver([NoEvent EXCEPT !.op = "onShowCustomView", !.view = view,
                                !.callback = callback],
               onShowCustomView(view, callback))

DidStopLoading(o, url) ==
    /\ o \in attached
    /\ Deliver([NoEvent EXCEPT !.op = "didStopLoading", !.observer = o, !.url = url],
               didStopLoading(url))

DidFailLoad(o, isProvisionalLoad, isMainFrame, errorCode, description, failingUrl) ==
    /\ o \in attached
    /\ Deliver([NoEvent EXCEPT !.op = "didFailLoad", !.observer = o,
                                !.isProvisionalLoad = isProvisionalLoad,
                                !.isMainFrame = isMainFrame, !.errorCode = errorCode,
                                !.description = description, !.url = failingUrl],
               didFailLoad(isProvisionalLoad, isMainFrame, errorCode, description,
                           failingUrl))

DidNavigateAnyFrame(o, url, baseUrl, isReload) ==
    /\ o \in attached
    /\ Deliver([NoEvent EXCEPT !.op = "didNavigateAnyFrame", !.observer = o,
                                !.url = url, !.isReload = isReload],
               didNavigateAnyFrame(url, baseUrl, isReload))

DidFinishLoad(o, frameId, validatedUrl, isMainFrame) ==
    /\ o \in attached
    /\ Deliver([NoEvent EXCEPT !.op = "didFinishLoad", !.observer = o,
                                !.frameId = frameId, !.url = validatedUrl,
                                !.isMainFrame = isMainFrame],
               didFinishLoad(frameId, validatedUrl, isMainFrame))

NextClient ==
    \/ \E c \in ContentViewCores : InstallWebContentsObserver(c)
    \/ \E o \in 1..MaxObservers, u \in Urls : DidStopLoading(o, u)
    \/ \E o \in 1..MaxObservers, p \in BOOLEAN, m \in BOOLEAN, e \in NetErrors,
          d \in Descriptions, u \in Urls : DidFailLoad(o, p, m, e, d, u)
    \/ \E o \in 1..MaxObservers, u \in Urls, r \in BOOLEAN :
          DidNavigateAnyFrame(o, u, u, r)
    \/ \E o \in 1..MaxObservers, f \in FrameIds, u \in Urls, m \in BOOLEAN :
          DidFinishLoad(o, f, u, m)
    \/ \E d \in DIPScales : SetDIPScale(d)
    \/ \E t \in Titles : OnUpdateTitle(t)
    \/ \E a \in Scales, b \in Scales : OnScaleChanged(a, b)
    \/ \E v \in Views, c \in CustomViewCallbacks : OnShowCustomView(v, c)

\* C1: didFailLoad invokes onReceivedError once, with the converted error code,
\* the description and the failing url, when the failure is in the main frame
\* and the code is not ERR_ABORTED; otherwise it invokes no embedder callback.
C1_FailLoadRelay ==
    lastEvent.op = "didFailLoad" =>
        lastCalls =
            IF lastEvent.isMainFrame /\ lastEvent.errorCode # ERR_ABORTED
            THEN <<Callback("onReceivedError", convertErrorCode(lastEvent.errorCode),
                            lastEvent.description, lastEvent.url, FALSE)>>
            ELSE <<>>

C1_Witness ==
    /\ lastEvent.op = "didFailLoad"
    /\ lastEvent.isMainFrame
    /\ lastEvent.errorCode = ERR_TIMED_OUT
    /\ Len(lastCalls) = 1
    /\ lastCalls[1].cb = "onReceivedError"
    /\ lastCalls[1].code = ERROR_TIMEOUT

PageFinishedCalls(url) == CopiesIn(Callback("onPageFinished", 0, "", url, FALSE), calls)

\* C2: over any sequence of observer events the embedder has received
\* onPageFinished(url) once per didStopLoading(url) event; didFinishLoad
\* invokes nothing.
C2_PageFinishedPerStop ==
    /\ \A u \in Urls : PageFinishedCalls(u) = events[<<"didStopLoading", u>>]
    /\ lastEvent.op = "didFinishLoad" => lastCalls = <<>>
    /\ lastEvent.op = "didStopLoading" =>
           lastCalls = <<Callback("onPageFinished", 0, "", lastEvent.url, FALSE)>>

C2_Witness ==
    \E u \in Urls :
        /\ events[<<"didStopLoading", u>>] = 1
        /\ events[<<"didFinishLoad", u>>] = 1
        /\ lastEvent.op = "didFinishLoad"
        /\ PageFinishedCalls(u) = 1

\* C10: after any sequence of installWebContentsObserver calls only the
\* observer of the most recent call is attached, and the field refers to it.
C10_OneObserverAttached ==
    /\ Cardinality(attached) <= 1
    /\ mWebContentsObserver = created
    /\ attached = IF created = 0 THEN {} ELSE {created}
    /\ lastEvent.op = "installWebContentsObserver" =>
           lastEvent.observer = mWebContentsObserver

C10_Witness ==
    /\ created >= 2
    /\ lastEvent.op = "installWebContentsObserver"
    /\ attached = {mWebContentsObserver}

(***************************************************************************)
(* XWalkContentBrowserClient                                               *)
(***************************************************************************)

NULL == "NULL"
Clients == {"client1", "client2"}

\* OS_ANDROID, OS_TIZEN, or neither.
Platforms == {"android", "tizen", "linux"}

RenderHosts == {1, 2}
RenderFrames == {1}
NoApp == "none"
Apps == {"app1"}

\* GURL: the components the overrides read.
kApplicationScheme == "app"
Sites == [scheme : {"app", "http"}, host : {"", "example.org"}]
TargetUrls == {s \in Sites : s.host # ""}
spec(url) == <<url.scheme, "://", url.host, "/">>
SchemeIs(url, scheme) == url.scheme = scheme

\* base::CommandLine: the switches in the order they were appended.
kXWalkDisableExtensionProcess == "disable-extension-process"
kOtherSwitch == "enable-logging"
HasSwitch(command_line, switch) ==
    \E i \in 1..Len(command_line) : command_line[i] = switch
AppendSwitch(command_line, switch) == Append(command_line, switch)
BrowserCmdLines == {<<>>, <<kXWalkDisableExtensionProcess>>, <<kOtherSwitch>>,
                    <<kOtherSwitch, kXWalkDisableExtensionProcess>>}
ChildCmdLines == {<<>>, <<"type=renderer">>,
                  <<"type=renderer", kXWalkDisableExtensionProcess>>}

\* content::CertificateRequestResultType
CertResults == {"CONTINUE", "CANCEL", "DENY"}

NoCall ==
    [op |-> "none", this |-> NULL, ret |-> NULL, retBool |-> FALSE,
     process |-> 0, frame |-> 0, url |-> [scheme |-> "", host |-> ""],
     app |-> NoApp, no_javascript_access_in |-> FALSE,
     no_javascript_access |-> FALSE, openedExternal |-> <<>>, logged |-> <<>>,
     client |-> FALSE, bridgeCalls |-> 0, bridgeLeftCancel |-> FALSE,
     callbackRuns |-> 0,
     result_in |-> "CONTINUE", result |-> "CONTINUE", resultSet |-> FALSE,
     browser_in |-> <<>>, cmd_in |-> <<>>, cmd |-> <<>>,
     domain_in |-> "", domain |-> "", name_in |-> "", name |-> "",
     in_memory_in |-> FALSE, in_memory |-> FALSE, visited |-> 0]

\* XWalkContentBrowserClient::Get
Get == g_browser_client

\* The constructor's and the destructor's assignment to g_browser_client.
Constructor(this) == this
DestructorKeepsPointer(this) == g_browser_client
Destructor(this) == NULL

AppendAnySwitch(browser_process_cmd_line, command_line) ==
    [browser |-> browser_process_cmd_line,
     child |-> IF browser_process_cmd_line # <<>>
               THEN AppendSwitch(command_line, browser_process_cmd_line[1])
               ELSE command_line]
AppendExtraCommandLineSwitches(browser_process_cmd_line, command_line) ==
    LET extra_switches == <<kXWalkDisableExtensionProcess>>
        RECURSIVE Loop(_, _)
        Loop(i, cl) ==
            IF i > Len(extra_switches) THEN cl
            ELSE Loop(i + 1,
                      IF HasSwitch(browser_process_cmd_line, extra_switches[i])
                      THEN AppendSwitch(cl, extra_switches[i])
                      ELSE cl)
    IN [browser |-> browser_process_cmd_line, child |-> Loop(1, command_line)]

\* application::ApplicationService::GetApplicationByRenderHostID
GetApplicationByRenderHostID(render_process_id) == appOfHost[render_process_id]
\* application::Application::CanRequestURL
CanRequestURL(app, url) == url \in allowedUrls[app]

CanCreateWindowAppOnly(target_url, render_process_id) ==
    LET app == GetApplicationByRenderHostID(render_process_id)
    IN [no_javascript_access |-> FALSE,
        ret |-> app # NoApp /\ CanRequestURL(app, target_url),
        logged |-> <<>>, openedExternal |-> <<>>]
CanCreateWindow(target_url, render_process_id) ==
    LET app == GetApplicationByRenderHostID(render_process_id)
    IN IF app = NoApp
       THEN [no_javascript_access |-> FALSE, ret |-> TRUE,
             logged |-> <<>>, openedExternal |-> <<>>]
       ELSE IF CanRequestURL(app, target_url)
       THEN [no_javascript_access |-> FALSE, ret |-> TRUE,
             logged |-> <<"[ALLOW] CreateWindow: ">> \o spec(target_url),
             openedExternal |-> <<>>]
       ELSE [no_javascript_access |-> FALSE, ret |-> FALSE,
             logged |-> <<"[BlOCK] CreateWindow: ">> \o spec(target_url),
             openedExternal |-> IF os = "tizen" THEN <<target_url>> ELSE <<>>]

\* XWalkContentsClientBridgeBase::FromRenderFrameID
FromRenderFrameID(render_process_id, render_frame_id) ==
    <<render_process_id, render_frame_id>> \in bridges

\* bridge is what the client bridge's AllowCertificateError did when it was
\* called: whether it left cancel_request true, how often it ran the callback.
AllowCertificateErrorAlwaysDeny(render_process_id, render_frame_id, result, bridge) ==
    IF os = "android"
    THEN LET client == FromRenderFrameID(render_process_id, render_frame_id)
         IN [client |-> client, bridgeCalls |-> IF client THEN 1 ELSE 0,
             callbackRuns |-> IF client THEN bridge.callbackRuns ELSE 0,
             result |-> "DENY", resultSet |-> TRUE]
    ELSE [client |-> FALSE, bridgeCalls |-> 0, callbackRuns |-> 0,
          result |-> result, resultSet |-> FALSE]
AllowCertificateError(render_process_id, render_frame_id, result, bridge) ==
    IF os = "android"
    THEN LET client == FromRenderFrameID(render_process_id, render_frame_id)
             cancel_request == IF client THEN bridge.cancel_request ELSE TRUE
         IN [client |-> client, bridgeCalls |-> IF client THEN 1 ELSE 0,
             callbackRuns |-> IF client THEN bridge.callbackRuns ELSE 0,
             result |-> IF cancel_request THEN "DENY" ELSE result,
             resultSet |-> cancel_request]
    ELSE [client |-> FALSE, bridgeCalls |-> 0, callbackRuns |-> 0,
          result |-> result, resultSet |-> FALSE]

StoragePartitionAnyScheme(site, partition_domain, partition_name, in_memory) ==
    [in_memory |-> FALSE, partition_name |-> "",
     partition_domain |-> IF os # "android" THEN site.host ELSE ""]
GetStoragePartitionConfigForSite(site, partition_domain, partition_name, in_memory) ==
    [in_memory |-> FALSE, partition_name |-> "",
     partition_domain |-> IF os # "android" /\ SchemeIs(site, kApplicationScheme)
                          THEN site.host ELSE ""]

\* The application system exists only off Android, the client bridges only on
\* Android.
InitBrowser ==
    /\ os \in Platforms
    /\ g_browser_client = NULL
    /\ alive = {}
    /\ browserCmdLine \in BrowserCmdLines
    /\ appOfHost \in [RenderHosts -> Apps \cup {NoApp}]
    /\ allowedUrls \in [Apps -> SUBSET TargetUrls]
    /\ bridges \in SUBSET (RenderHosts \X RenderFrames)
    /\ os = "android" => appOfHost = [h \in RenderHosts |-> NoApp]
    /\ os = "android" => allowedUrls = [a \in Apps |-> {}]
    /\ os # "android" => bridges = {}
    /\ disable_nacl = FALSE
    /\ childHosts = <<>>
    /\ lastCall = NoCall

\* What no override writes: the platform, the application system, the client
\* bridges, and the other parts of the process.
Environment == <<os, appOfHost, allowedUrls, bridges, disable_nacl, childHosts,
                 clientVars, extVars>>

Construct(this) ==
    /\ this \notin alive
    /\ g_browser_client = NULL          \* DCHECK(!g_browser_client)
    /\ g_browser_client' = Constructor(this)
    /\ alive' = alive \cup {this}
    /\ lastCall' = [NoCall EXCEPT !.op = "XWalkContentBrowserClient", !.this = this]
    /\ UNCHANGED <<Environment, browserCmdLine>>

Destroy(this) ==
    /\ this \in alive
    /\ g_browser_client # NULL          \* DCHECK(g_browser_client)
    /\ g_browser_client' = Destructor(this)
    /\ alive' = alive \ {this}
    /\ lastCall' = [NoCall EXCEPT !.op = "~XWalkContentBrowserClient", !.this = this]
    /\ UNCHANGED <<Environment, browserCmdLine>>

CallGet ==
    /\ lastCall' = [NoCall EXCEPT !.op = "Get", !.ret = Get]
    /\ UNCHANGED <<Environment, browserCmdLine, g_browser_client, alive>>

CallAppendExtraCommandLineSwitches(this, command_line) ==
    /\ this \in alive
    /\ LET r == AppendExtraCommandLineSwitches(browserCmdLine, command_line) IN
        /\ browserCmdLine' = r.browser
        /\ lastCall' = [NoCall EXCEPT !.op = "AppendExtraCommandLineSwitches",
                                      !.this = this, !.browser_in = browserCmdLine,
                                      !.cmd_in = command_line, !.cmd = r.child]
    /\ UNCHANGED <<Environment, g_browser_client, alive>>

CallCanCreateWindow(this, target_url, render_process_id, no_javascript_access) ==
    /\ this \in alive
    /\ os # "android"
    /\ LET r == CanCreateWindow(target_url, render_process_id) IN
        lastCall' = [NoCall EXCEPT !.op = "CanCreateWindow", !.this = this,
                                   !.url = target_url, !.process = render_process_id,
                                   !.app = GetApplicationByRenderHostID(render_process_id),
                                   !.no_javascript_access_in = no_javascript_access,
                                   !.no_javascript_access = r.no_javascript_access,
                                   !.retBool = r.ret, !.logged = r.logged,
                                   !.openedExternal = r.openedExternal]
    /\ UNCHANGED <<Environment, browserCmdLine, g_browser_client, alive>>

CallAllowCertificateError(this, render_process_id, render_frame_id, result, bridge) ==
    /\ this \in alive
    /\ LET r == AllowCertificateError(render_process_id, render_frame_id, result, bridge) IN
        lastCall' = [NoCall EXCEPT !.op = "AllowCertificateError", !.this = this,
                                   !.process = render_process_id,
                                   !.frame = render_frame_id,
                                   !.client = r.client, !.bridgeCalls = r.bridgeCalls,
                                   !.callbackRuns = r.callbackRuns,
                                   !.bridgeLeftCancel =
                                       r.client /\ bridge.cancel_request,
                                   !.result_in = result, !.result = r.result,
                                   !.resultSet = r.resultSet]
    /\ UNCHANGED <<Environment, browserCmdLine, g_browser_client, alive>>

CallGetStoragePartitionConfigForSite(this, site, partition_domain, partition_name, in_memory) ==
    /\ this \in alive
    /\ LET r == GetStoragePartitionConfigForSite(site, partition_domain,
                                                 partition_name, in_memory) IN
        lastCall' = [NoCall EXCEPT !.op = "GetStoragePartitionConfigForSite",
                                   !.this = this, !.url = site,
                                   !.domain_in = partition_domain,
                                   !.name_in = partition_name,
                                   !.in_memory_in = in_memory,
                                   !.domain = r.partition_domain,
                                   !.name = r.partition_name,
                                   !.in_memory = r.in_memory]
    /\ UNCHANGED <<Environment, browserCmdLine, g_browser_client, alive>>

BridgeOutcomes == [cancel_request : BOOLEAN, callbackRuns : {0, 1}]
PartitionStrings == {"", "stale"}

NextBrowser ==
    \/ \E c \in Clients : Construct(c)
    \/ \E c \in Clients : Destroy(c)
    \/ CallGet
    \/ \E c \in Clients, cl \in ChildCmdLines :
          CallAppendExtraCommandLineSwitches(c, cl)
    \/ \E c \in Clients, u \in TargetUrls, h \in RenderHosts, n \in BOOLEAN :
          CallCanCreateWindow(c, u, h, n)
    \/ \E c \in Clients, h \in RenderHosts, f \in RenderFrames, r \in CertResults,
          b \in BridgeOutcomes : CallAllowCertificateError(c, h, f, r, b)
    \/ \E c \in Clients, s \in Sites, d \in PartitionStrings,
          n \in PartitionStrings, m \in BOOLEAN :
          CallGetStoragePartitionConfigForSite(c, s, d, n, m)

(***************************************************************************)
(* XWalkContentBrowserClient::GetExternalBrowserPpapiHost                  *)
(***************************************************************************)

\* Bound on the number of child process hosts.
MaxChildHosts == 3

PROCESS_TYPE_NACL_LOADER == "nacl-loader"
ProcessTypes == {PROCESS_TYPE_NACL_LOADER, "ppapi-plugin"}
PluginProcessIds == {4, 5}
PpapiHosts == {"ppapiHostA", "ppapiHostB"}

\* A child process host: its type, whether host->process() is non-null, the
\* id in the process's ChildProcessData, and host->browser_ppapi_host().
ChildHosts == [type : ProcessTypes, process : BOOLEAN, id : PluginProcessIds,
               browser_ppapi_host : PpapiHosts]

RECURSIVE HostLists(_)
HostLists(n) ==
    IF n = 0 THEN {<<>>}
    ELSE HostLists(n - 1)
         \cup {Append(l, h) : l \in {x \in HostLists(n - 1) : Len(x) = n - 1},
                              h \in ChildHosts}

\* BrowserChildProcessHostIterator(type): a position in childHosts that rests
\* only on hosts of the type; Len(childHosts) + 1 is the end.
RECURSIVE IterSkip(_, _)
IterSkip(type, pos) ==
    IF pos > Len(childHosts) \/ childHosts[pos].type = type THEN pos
    ELSE IterSkip(type, pos + 1)
IterBegin(type) == IterSkip(type, 1)
IterDone(pos) == pos > Len(childHosts)
IterNext(type, pos) == IterSkip(type, pos + 1)
IterGetDelegate(pos) == childHosts[pos]

\* The value returned and the number of hosts the loop looked at.
GetExternalIgnoresProcess(plugin_process_id) ==
    LET RECURSIVE Loop(_, _)
        Loop(iter, n) ==
            IF IterDone(iter) THEN [ret |-> NULL, visited |-> n]
            ELSE LET host == IterGetDelegate(iter)
                 IN IF host.id = plugin_process_id
                    THEN [ret |-> host.browser_ppapi_host, visited |-> n + 1]
                    ELSE Loop(IterNext(PROCESS_TYPE_NACL_LOADER, iter), n + 1)
    IN IF ~disable_nacl THEN Loop(IterBegin(PROCESS_TYPE_NACL_LOADER), 0)
       ELSE [ret |-> NULL, visited |-> 0]
GetExternalBrowserPpapiHost(plugin_process_id) ==
    LET RECURSIVE Loop(_, _)
        Loop(iter, n) ==
            IF IterDone(iter) THEN [ret |-> NULL, visited |-> n]
            ELSE LET host == IterGetDelegate(iter)
                 IN IF host.process /\ host.id = plugin_process_id
                    THEN [ret |-> host.browser_ppapi_host, visited |-> n + 1]
                    ELSE Loop(IterNext(PROCESS_TYPE_NACL_LOADER, iter), n + 1)
    IN IF ~disable_nacl THEN Loop(IterBegin(PROCESS_TYPE_NACL_LOADER), 0)
       ELSE [ret |-> NULL, visited |-> 0]

CallGetExternalBrowserPpapiHost(this, plugin_process_id) ==
    /\ this \in alive
    /\ LET r == GetExternalBrowserPpapiHost(plugin_process_id) IN
        lastCall' = [NoCall EXCEPT !.op = "GetExternalBrowserPpapiHost",
                                   !.this = this, !.process = plugin_process_id,
                                   !.ret = r.ret, !.visited = r.visited]
    /\ UNCHANGED <<Environment, browserCmdLine, g_browser_client, alive>>

\* A process with child process hosts, built with or without NaCl. The
\* function does not read the platform.
InitNaCl ==
    /\ os = "linux"
    /\ g_browser_client = NULL
    /\ alive = {}
    /\ browserCmdLine = <<>>
    /\ appOfHost = [h \in RenderHosts |-> NoApp]
    /\ allowedUrls = [a \in Apps |-> {}]
    /\ bridges = {}
    /\ disable_nacl \in BOOLEAN
    /\ childHosts \in HostLists(MaxChildHosts)
    /\ lastCall = NoCall

NextNaCl ==
    \/ \E c \in Clients : Construct(c)
    \/ \E c \in Clients : Destroy(c)
    \/ \E c \in Clients, p \in PluginProcessIds : CallGetExternalBrowserPpapiHost(c, p)

\* The NaCl loader hosts with a process of the id, as positions in childHosts.
Matching(plugin_process_id) ==
    {k \in 1..Len(childHosts) :
        /\ childHosts[k].type = PROCESS_TYPE_NACL_LOADER
        /\ childHosts[k].process
        /\ childHosts[k].id = plugin_process_id}

Min(S) == CHOOSE k \in S : \A j \in S : k <= j

\* C12: with NaCl enabled GetExternalBrowserPpapiHost returns the Pepper host
\* of the first NaCl loader host that has a process with the id, skipping hosts
\* without a process, after at most one look at each NaCl loader host; it
\* returns NULL when none matches and whenever NaCl is disabled.
C12_ExternalPpapiHost ==
    lastCall.op = "GetExternalBrowserPpapiHost" =>
        LET found == Matching(lastCall.process)
            loaders == {k \in 1..Len(childHosts) :
                           childHosts[k].type = PROCESS_TYPE_NACL_LOADER}
        IN /\ lastCall.ret =
                 IF disable_nacl \/ found = {} THEN NULL
                 ELSE childHosts[Min(found)].browser_ppapi_host
           /\ lastCall.visited <= Cardinality(loaders)
           /\ disable_nacl => lastCall.visited = 0

C12_Witness ==
    /\ lastCall.op = "GetExternalBrowserPpapiHost"
    /\ ~disable_nacl
    /\ Len(childHosts) = 3
    /\ childHosts[1].type = PROCESS_TYPE_NACL_LOADER
    /\ ~childHosts[1].process
    /\ childHosts[1].id = lastCall.process
    /\ childHosts[1].browser_ppapi_host = "ppapiHostA"
    /\ Matching(lastCall.process) = {2, 3}
    /\ childHosts[2].browser_ppapi_host = "ppapiHostB"
    /\ childHosts[3].browser_ppapi_host = "ppapiHostA"
    /\ lastCall.ret = "ppapiHostB"

\* C3: at most one instance is alive, Get() returns it while it is alive, and
\* Get() returns NULL when none is (before the first construction, after the
\* destruction).
C3_Singleton ==
    /\ Cardinality(alive) <= 1
    /\ alive = {} => Get = NULL
    /\ alive # {} => alive = {Get}
    /\ lastCall.op = "Get" => lastCall.ret = Get

C3_Witness ==
    /\ lastCall.op = "~XWalkContentBrowserClient"
    /\ alive = {}
    /\ Get = NULL

\* C4: CanCreateWindow returns true for a render process of no application,
\* app->CanRequestURL(target_url) otherwise, and always clears
\* *no_javascript_access.
C4_CanCreateWindow ==
    lastCall.op = "CanCreateWindow" =>
        /\ os # "android"
        /\ lastCall.no_javascript_access = FALSE
        /\ lastCall.retBool =
              IF appOfHost[lastCall.process] = NoApp THEN TRUE
              ELSE lastCall.url \in allowedUrls[appOfHost[lastCall.process]]

C4_Witness ==
    /\ lastCall.op = "CanCreateWindow"
    /\ appOfHost[lastCall.process] # NoApp
    /\ lastCall.url \notin allowedUrls[appOfHost[lastCall.process]]
    /\ lastCall.no_javascript_access_in
    /\ ~lastCall.retBool

\* C5: on Android *result becomes DENY exactly when there is no client bridge
\* for the frame or the bridge left cancel_request true, and the bridge is
\* called at most once; elsewhere *result is untouched and the callback not run.
C5_AllowCertificateError ==
    lastCall.op = "AllowCertificateError" =>
        IF os = "android"
        THEN /\ lastCall.client = (<<lastCall.process, lastCall.frame>> \in bridges)
             /\ lastCall.resultSet = (~lastCall.client \/ lastCall.bridgeLeftCancel)
             /\ lastCall.result = IF lastCall.resultSet THEN "DENY"
                                  ELSE lastCall.result_in
             /\ lastCall.bridgeCalls = IF lastCall.client THEN 1 ELSE 0
        ELSE /\ lastCall.result = lastCall.result_in
             /\ ~lastCall.resultSet
             /\ lastCall.bridgeCalls = 0
             /\ lastCall.callbackRuns = 0

C5_Witness ==
    /\ lastCall.op = "AllowCertificateError"
    /\ os = "android"
    /\ lastCall.client
    /\ ~lastCall.bridgeLeftCancel
    /\ lastCall.result_in = "CONTINUE"
    /\ lastCall.result = "CONTINUE"

\* C8: the child command line gains kXWalkDisableExtensionProcess exactly when
\* the browser command line has it, gains nothing else, and the browser
\* command line is unchanged.
C8_AppendExtraSwitches ==
    lastCall.op = "AppendExtraCommandLineSwitches" =>
        /\ lastCall.cmd =
              IF HasSwitch(lastCall.browser_in, kXWalkDisableExtensionProcess)
              THEN lastCall.cmd_in \o <<kXWalkDisableExtensionProcess>>
              ELSE lastCall.cmd_in
        /\ browserCmdLine = lastCall.browser_in

C8_Witness ==
    /\ lastCall.op = "AppendExtraCommandLineSwitches"
    /\ lastCall.browser_in = <<kOtherSwitch, kXWalkDisableExtensionProcess>>
    /\ lastCall.cmd_in = <<"type=renderer">>
    /\ lastCall.cmd = <<"type=renderer", kXWalkDisableExtensionProcess>>

\* C9: *in_memory becomes false and *partition_name empty whatever they held;
\* *partition_domain becomes the site's host for an application-scheme site off
\* Android and empty otherwise.
C9_StoragePartitionConfig ==
    lastCall.op = "GetStoragePartitionConfigForSite" =>
        /\ lastCall.in_memory = FALSE
        /\ lastCall.name = ""
        /\ lastCall.domain =
              IF os # "android" /\ lastCall.url.scheme = "app"
              THEN lastCall.url.host ELSE ""

C9_Witness ==
    /\ lastCall.op = "GetStoragePartitionConfigForSite"
    /\ os = "linux"
    /\ lastCall.url = [scheme |-> "app", host |-> "example.org"]
    /\ lastCall.in_memory_in
    /\ lastCall.name_in = "stale"
    /\ lastCall.domain_in = "stale"
    /\ lastCall.domain = "example.org"

(***************************************************************************)
(* ExtensionEchoInternal and ExtensionBroadcastInternal                    *)
(***************************************************************************)

\* Bounds of the extension model.
NumInstances == 2
MaxInFlight == 2

Instances == 1..NumInstances
Extensions == {"echo", "broadcast"}

\* Strings are sequences of characters, + is \o.
FromJava == <<"F", "r", "o", "m", " ", "j", "a", "v", "a", ":">>
FromJavaSync ==
    <<"F", "r", "o", "m", " ", "j", "a", "v", "a", " ", "s", "y", "n", "c", ":">>
FromJavaBroadcast ==
    <<"F", "r", "o", "m", " ", "j", "a", "v", "a", " ",
      "b", "r", "o", "a", "d", "c", "a", "s", "t", ":">>
Messages == {<<"h", "i">>, <<"y", "o">>}

\* JavaScript values handed to the APIs; the functions among them.
EchoCallbacks == {"cb1", "cb2"}
Handlers == {"h1"}
Functions == {"cb1", "cb2", "h1"}

\* XWalkExtensionAndroid.postMessage and broadcastMessage: the messages put on
\* the channels of the extension's instances, in order.
postMessage(instanceID, message) ==
    <<[instance |-> instanceID, message |-> message]>>
broadcastMessage(message) ==
    [i \in 1..NumInstances |-> [instance |-> i, message |-> message]]

Echo_handleMessageBroadcasts(instanceID, message) ==
    broadcastMessage(FromJava \o message)
Echo_handleMessage(instanceID, message) ==
    postMessage(instanceID, FromJava \o message)

Echo_handleSyncMessage(instanceID, message) == FromJavaSync \o message

Broadcast_handleMessageToSender(instanceID, message) ==
    postMessage(instanceID, FromJavaBroadcast \o message)
Broadcast_handleMessage(instanceID, message) ==
    broadcastMessage(FromJavaBroadcast \o message)

Broadcast_handleSyncMessage(instanceID, message) == FromJava \o message

handleMessage(ext, instanceID, message) ==
    IF ext = "echo" THEN Echo_handleMessage(instanceID, message)
    ELSE Broadcast_handleMessage(instanceID, message)

handleSyncMessage(ext, instanceID, message) ==
    IF ext = "echo" THEN Echo_handleSyncMessage(instanceID, message)
    ELSE Broadcast_handleSyncMessage(instanceID, message)

\* The queues of one extension after the posts have been put on them.
Posted(queues, posts) ==
    LET RECURSIVE Put(_, _)
        Put(q, n) ==
            IF n > Len(posts) THEN q
            ELSE Put([q EXCEPT ![posts[n].instance] = Append(@, posts[n].message)],
                     n + 1)
    IN Put(queues, 1)

QueueLengths(queues) == [i \in Instances |-> Len(queues[i])]

InFlight ==
    LET RECURSIVE Sum(_, _)
        Sum(q, n) == IF n = 0 THEN 0 ELSE Len(q[n]) + Sum(q, n - 1)
    IN Len(toNative["echo"]) + Len(toNative["broadcast"])
       + Sum(toJs["echo"], NumInstances) + Sum(toJs["broadcast"], NumInstances)

NoExt == [op |-> "none", ext |-> "", instance |-> 0, message |-> <<>>,
          value |-> "null", posted |-> <<>>, ret |-> <<>>, invoked |-> <<>>,
          answered |-> <<>>,
          lengthsBefore |-> [i \in Instances |-> 0]]

InitExt ==
    /\ toNative = [e \in Extensions |-> <<>>]
    /\ toJs = [e \in Extensions |-> [i \in Instances |-> <<>>]]
    /\ echoListener = [i \in Instances |-> "null"]
    /\ handler = [i \in Instances |-> "null"]
    /\ echoPending = [i \in Instances |-> <<>>]
    /\ lastExt = NoExt

\* extension.postMessage(msg) in the JavaScript of an instance.
JsPostMessage(ext, i, msg) ==
    toNative' = [toNative EXCEPT ![ext] = Append(@, [instance |-> i, message |-> msg])]

\* exports.echo = function(msg, callback)
JsEcho(i, msg, callback) ==
    /\ InFlight < MaxInFlight
    /\ echoListener' = [echoListener EXCEPT ![i] = callback]
    /\ JsPostMessage("echo", i, msg)
    /\ echoPending' = [echoPending EXCEPT
                          ![i] = Append(@, [message |-> msg, callback |-> callback])]
    /\ lastExt' = [NoExt EXCEPT !.op = "echo", !.ext = "echo", !.instance = i,
                                !.message = msg, !.value = callback]
    /\ UNCHANGED <<toJs, handler, clientVars, browserVars>>

\* exports.setHandler = function(handler)
JsSetHandler(i, h) ==
    /\ handler' = [handler EXCEPT ![i] = h]
    /\ lastExt' = [NoExt EXCEPT !.op = "setHandler", !.ext = "broadcast",
                                !.instance = i, !.value = h]
    /\ UNCHANGED <<toNative, toJs, echoListener, echoPending, clientVars, browserVars>>

\* exports.trigger = function(msg)
JsTrigger(i, msg) ==
    /\ InFlight < MaxInFlight
    /\ JsPostMessage("broadcast", i, msg)
    /\ lastExt' = [NoExt EXCEPT !.op = "trigger", !.ext = "broadcast",
                                !.instance = i, !.message = msg]
    /\ UNCHANGED <<toJs, echoListener, handler, echoPending, clientVars, browserVars>>

\* extension.internal.sendSyncMessage(msg): exports.echoSync for the echo
\* extension; handleSyncMessage runs and its value is returned to the caller.
SendSyncMessage(ext, i, msg) ==
    /\ lastExt' = [NoExt EXCEPT !.op = "handleSyncMessage", !.ext = ext,
                                !.instance = i, !.message = msg,
                                !.ret = handleSyncMessage(ext, i, msg),
                                !.lengthsBefore = QueueLengths(toJs[ext])]
    /\ UNCHANGED <<toNative, toJs, echoListener, handler, echoPending, clientVars, browserVars>>

\* The engine hands the oldest message posted by JavaScript to handleMessage.
HandleMessage(ext) ==
    /\ toNative[ext] # <<>>
    /\ LET m == Head(toNative[ext])
           posts == handleMessage(ext, m.instance, m.message)
       IN /\ toNative' = [toNative EXCEPT ![ext] = Tail(@)]
          /\ toJs' = [toJs EXCEPT ![ext] = Posted(@, posts)]
          /\ lastExt' = [NoExt EXCEPT !.op = "handleMessage", !.ext = ext,
                                      !.instance = m.instance,
                                      !.message = m.message, !.posted = posts,
                                      !.lengthsBefore = QueueLengths(toJs[ext])]
    /\ UNCHANGED <<echoListener, handler, echoPending, clientVars, browserVars>>

\* The exports.echo call of instance i that the oldest message posted to i
\* answers: both channels keep their order, so it is the oldest pending call.
AnsweredCall(ext, i) ==
    IF ext = "echo" /\ echoPending[i] # <<>> THEN <<Head(echoPending[i])>> ELSE <<>>

\* The engine hands the oldest message posted to an instance to the message
\* listener its JavaScript set.
JsOnMessage(ext, i) ==
    /\ toJs[ext][i] # <<>>
    /\ LET msg == Head(toJs[ext][i])
           listener == IF ext = "echo" THEN echoListener[i] ELSE handler[i]
       IN lastExt' = [NoExt EXCEPT !.op = "onMessage", !.ext = ext, !.instance = i,
                                   !.message = msg,
                                   !.answered = AnsweredCall(ext, i),
                                   !.invoked =
                                       IF listener \in Functions
                                       THEN <<[callback |-> listener, message |-> msg]>>
                                       ELSE <<>>]
    /\ toJs' = [toJs EXCEPT ![ext][i] = Tail(@)]
    /\ echoPending' = IF ext = "echo" /\ echoPending[i] # <<>>
                      THEN [echoPending EXCEPT ![i] = Tail(@)]
                      ELSE echoPending
    /\ UNCHANGED <<toNative, echoListener, handler, clientVars, browserVars>>

NextEcho ==
    \/ \E i \in Instances, m \in Messages, c \in EchoCallbacks : JsEcho(i, m, c)
    \/ \E i \in Instances, m \in Messages : SendSyncMessage("echo", i, m)
    \/ HandleMessage("echo")
    \/ \E i \in Instances : JsOnMessage("echo", i)

NextBroadcast ==
    \/ \E i \in Instances, h \in Handlers : JsSetHandler(i, h)
    \/ \E i \in Instances, m \in Messages : JsTrigger(i, m)
    \/ \E i \in Instances, m \in Messages : SendSyncMessage("broadcast", i, m)
    \/ HandleMessage("broadcast")
    \/ \E i \in Instances : JsOnMessage("broadcast", i)

\* C6: the echo extension answers an asynchronous message m of instance i with
\* one posted message "From java:" + m to instance i and nothing to any other
\* instance; a synchronous message m with "From java sync:" + m and no post.
C6_EchoReplies ==
    lastExt.ext = "echo" =>
        /\ lastExt.op = "handleMessage" =>
              /\ lastExt.posted = <<[instance |-> lastExt.instance,
                                     message |-> FromJava \o lastExt.message]>>
              /\ \A j \in Instances :
                    toJs["echo"][j] =
                        IF j = lastExt.instance
                        THEN SubSeq(toJs["echo"][j], 1, lastExt.lengthsBefore[j])
                             \o <<FromJava \o lastExt.message>>
                        ELSE SubSeq(toJs["echo"][j], 1, lastExt.lengthsBefore[j])
        /\ lastExt.op = "handleSyncMessage" =>
              /\ lastExt.ret = FromJavaSync \o lastExt.message
              /\ lastExt.posted = <<>>
              /\ QueueLengths(toJs["echo"]) = lastExt.lengthsBefore

C6_Witness ==
    /\ lastExt.ext = "echo"
    /\ lastExt.op = "handleMessage"
    /\ lastExt.instance = 2
    /\ toJs["echo"][2] = <<FromJava \o <<"h", "i">>>>
    /\ toJs["echo"][1] = <<>>

\* C7: the broadcast extension answers an asynchronous message m with one
\* "From java broadcast:" + m to every instance; a synchronous message m with
\* "From java:" + m and no broadcast.
C7_BroadcastReplies ==
    lastExt.ext = "broadcast" =>
        /\ lastExt.op = "handleMessage" =>
              /\ Len(lastExt.posted) = NumInstances
              /\ \A j \in Instances :
                    /\ Cardinality({n \in 1..Len(lastExt.posted) :
                                       lastExt.posted[n].instance = j}) = 1
                    /\ toJs["broadcast"][j] =
                          SubSeq(toJs["broadcast"][j], 1, lastExt.lengthsBefore[j])
                          \o <<FromJavaBroadcast \o lastExt.message>>
        /\ lastExt.op = "handleSyncMessage" =>
              /\ lastExt.ret = FromJava \o lastExt.message
              /\ lastExt.posted = <<>>
              /\ QueueLengths(toJs["broadcast"]) = lastExt.lengthsBefore

C7_Witness ==
    /\ lastExt.ext = "broadcast"
    /\ lastExt.op = "handleMessage"
    /\ lastExt.instance = 1
    /\ \A j \in Instances :
          toJs["broadcast"][j] = <<FromJavaBroadcast \o <<"y", "o">>>>

\* C11: the reply to every exports.echo(msg, callback) call is handed to that
\* call's own callback, whatever other echo calls of the instance are
\* outstanding.
C11_OwnCallbackInvoked ==
    (/\ lastExt.op = "onMessage"
     /\ lastExt.ext = "echo"
     /\ lastExt.answered # <<>>
     /\ lastExt.answered[1].callback \in Functions) =>
        lastExt.invoked = <<[callback |-> lastExt.answered[1].callback,
                             message |-> FromJava \o lastExt.answered[1].message]>>

\* The browser client of a process in which only the other parts run.
BrowserIdle ==
    /\ InitBrowser
    /\ os = "android"
    /\ browserCmdLine = <<>>
    /\ bridges = {}

InitOfClient == InitClient /\ BrowserIdle /\ InitExt
InitOfBrowser == InitClient /\ InitBrowser /\ InitExt
InitOfExtension == InitClient /\ BrowserIdle /\ InitExt
InitOfNaCl == InitClient /\ InitNaCl /\ InitExt

SpecClient == InitOfClient /\ [][NextClient]_vars
SpecBrowser == InitOfBrowser /\ [][NextBrowser]_vars
SpecEcho == InitOfExtension /\ [][NextEcho]_vars
SpecBroadcast == InitOfExtension /\ [][NextBroadcast]_vars
SpecNaCl == InitOfNaCl /\ [][NextNaCl]_vars

====
